---------------------------- MODULE Spec2Model ----------------------------
(***************************************************************************)
(* Feature maps of feature.py: MarginalCDFMap (per-column empirical-CDF    *)
(* transform) and RFFKGauss (random Fourier features drawn from a seeded,  *)
(* scoped use of the process-wide numpy generator).                        *)
(*                                                                         *)
(* Numbers.  Data entries are small integers.  rankdata(...)/float(n) is a *)
(* rational, kept exactly as a fraction [num, den].  A frequency           *)
(* g/sqrt(sigma2) is kept exactly as [num |-> g, sigma2 |-> s], and an     *)
(* output entry sqrt(2/nf) * cos(p/sqrt(sigma2)) as the term               *)
(* [fn |-> "cos", num |-> p, sigma2 |-> s, nf |-> nf]: equal terms denote  *)
(* equal reals.                                                            *)
(***************************************************************************)
EXTENDS Integers, Sequences, FiniteSets, TLC

VARIABLES
    X,       \* the caller's data array (a numpy array object)
    rng,     \* state of the process-wide generator np.random
    map,     \* the feature map object the caller holds
    ret,     \* outcome of the last operation: what it returned or that it raised
    memo,    \* an earlier RFFKGauss result the caller kept, to compare with
    locked,  \* threads: whether callers wrap gen_features in one mutex
    lock,    \* threads: holder of that mutex
    pc,      \* threads: position of each thread inside its gen_features call
    tmap,    \* threads: the map each thread calls
    ctx,     \* threads: each thread's NumpySeedContext object (cur_state)
    tW,      \* threads: the W each thread drew
    tZ,      \* threads: what each thread's call returned
    rng0     \* threads: generator state before either call started

vars == <<X, rng, map, ret, memo, locked, lock, pc, tmap, ctx, tW, tZ, rng0>>

seqVars == <<X, rng, map, ret, memo>>
thrVars == <<locked, lock, pc, tmap, ctx, tW, tZ, rng0>>

---------------------------------------------------------------------------
(* Bounds of the model *)

\* a data matrix has at most MaxCells entries (n * d <= MaxCells)
MaxCells == 3

\* number of states of the abstract generator
Period == 5

\* values a data entry takes
Vals == {1, 2}

\* seeds a caller passes
Seeds == {1, 2}

\* default of the seed parameter
DefaultSeed == 1

---------------------------------------------------------------------------
(* numpy arrays: [shape |-> tuple, a |-> contents].  A 2-D array holds a   *)
(* sequence of n rows of length d; a 1-D array holds a sequence of values. *)

Array2(n, d, rows) == [shape |-> <<n, d>>, a |-> rows]

Array1(vs) == [shape |-> <<Len(vs)>>, a |-> vs]

Tuples(S, k) == [1..k -> S]

\* shapes of the data matrices: at most MaxCells entries, or empty with n + d <= 1
Shapes ==
    { p \in (0..MaxCells) \X (0..MaxCells) :
          p[1] * p[2] <= MaxCells /\ (p[1] * p[2] >= 1 \/ p[1] + p[2] <= 1) }

Matrices(S) ==
    UNION { { Array2(p[1], p[2], rows) : rows \in Tuples(Tuples(S, p[2]), p[1]) } : p \in Shapes }

\* arrays a caller may pass: every small n x d matrix, and 1-D arrays
\* (for which "n, d = X.shape" fails)
Arrays == Matrices(Vals) \cup { Array1(vs) : vs \in Tuples({1}, 1) \cup Tuples({1}, 2) }

Is2D(A) == Len(A.shape) = 2

Col(A, j) == [i \in 1..A.shape[1] |-> A.a[i][j]]

SetCol(A, j, col) ==
    [A EXCEPT !.a = [i \in 1..A.shape[1] |-> [A.a[i] EXCEPT ![j] = col[i]]]]

Zero == [num |-> 0, den |-> 1]

\* np.zeros((n, d))
Zeros(n, d) == Array2(n, d, [i \in 1..n |-> [j \in 1..d |-> Zero]])

---------------------------------------------------------------------------
(* scipy.stats.rankdata, method 'average': for the value's group in the    *)
(* sorted column, .5 * (count[dense] + count[dense - 1] + 1), where        *)
(* count[dense] is the number of entries <= the value and count[dense - 1] *)
(* the number of entries < it.  Kept as twice the rank, an integer.        *)

CountLE(col, v) == Cardinality({ k \in DOMAIN col : col[k] <= v })

CountLT(col, v) == Cardinality({ k \in DOMAIN col : col[k] < v })

\* method 'max' in place of 'average'
RankDataMax2(col) == [i \in DOMAIN col |-> 2 * CountLE(col, col[i])]

\* the column's values taken for their ranks
RawValues2(col) == [i \in DOMAIN col |-> 2 * col[i]]

RankData2(col) == [i \in DOMAIN col |-> CountLE(col, col[i]) + CountLT(col, col[i]) + 1]

\* ranks / float(n): each entry rank2 / (2 n)
DivByN(rank2, n) == [i \in DOMAIN rank2 |-> [num |-> rank2[i], den |-> 2 * n]]


---------------------------------------------------------------------------
(* Outcomes.  An operation either returns a value or raises; Effect adds   *)
(* what it leaves in the caller's array and in the process-wide generator. *)

Return(v) == [raised |-> FALSE, val |-> v]

Raise(e) == [raised |-> TRUE, err |-> e]

Effect(out, x, g) == [out |-> out, X |-> x, rng |-> g]

---------------------------------------------------------------------------
(* MarginalCDFMap *)

\* for j in range(d): Z[:, j] = stats.rankdata(X[:, j])/float(n)   (j is 1-based here)
RECURSIVE CDFLoop(_, _, _)
CDFLoop(Z, x, j) ==
    IF j > x.shape[2] THEN Z
    ELSE CDFLoop(SetCol(Z, j, DivByN(RankData2(Col(x, j)), x.shape[1])), x, j + 1)

\* X[:, j] in increasing order
SortedCol(col) ==
    [i \in DOMAIN col |-> CHOOSE v \in {col[k] : k \in DOMAIN col} :
                              CountLT(col, v) < i /\ i <= CountLE(col, v)]

\* the caller's array with every column sorted
SortedInPlace(x) ==
    Array2(x.shape[1], x.shape[2],
           [i \in 1..x.shape[1] |-> [j \in 1..x.shape[2] |-> SortedCol(Col(x, j))[i]]])

\* the ranks taken after X.sort(axis=0), which sorts the caller's array in place
MarginalCDFMap_gen_features_inplace(x, g) ==
    IF ~Is2D(x) THEN Effect(Raise("ValueError"), x, g)
    ELSE Effect(Return(CDFLoop(Zeros(x.shape[1], x.shape[2]), SortedInPlace(x), 1)),
                SortedInPlace(x), g)

MarginalCDFMap_gen_features(x, g) ==
    IF ~Is2D(x) THEN Effect(Raise("ValueError"), x, g)       \* n, d = X.shape
    ELSE Effect(Return(CDFLoop(Zeros(x.shape[1], x.shape[2]), x, 1)), x, g)

\* def num_features(self, X): return X.shape[1]
MarginalCDFMap_num_features(x, given, g) ==
    IF ~given THEN Effect(Raise("TypeError"), x, g)
    ELSE IF Len(x.shape) < 2 THEN Effect(Raise("IndexError"), x, g)
    ELSE Effect(Return(x.shape[2]), x, g)

---------------------------------------------------------------------------
(* The process-wide generator np.random, abstracted to Period states.      *)

\* np.random.seed(s): the state depends on s alone
SeedState(s) == s % Period

NextState(g) == (g + 1) % Period

RECURSIVE Advance(_, _)
Advance(g, k) == IF k = 0 THEN g ELSE Advance(NextState(g), k - 1)

\* the standard-normal value the generator yields in state g
Normal(g) == g - (Period \div 2)

\* np.random.randn(r, c): r*c successive values, filled row by row
Randn(g, r, c) ==
    [val |-> Array2(r, c, [i \in 1..r |-> [j \in 1..c |->
                              Normal(Advance(g, (i - 1) * c + (j - 1)))]]),
     rng |-> Advance(g, r * c)]

---------------------------------------------------------------------------
(* Exact arithmetic on the reals num / sqrt(sigma2) *)

Scaled(num, s) == [num |-> num, sigma2 |-> IF num = 0 THEN 1 ELSE s]

AddScaled(p, q) ==
    IF p.num = 0 THEN q ELSE IF q.num = 0 THEN p ELSE Scaled(p.num + q.num, p.sigma2)

\* A / np.sqrt(s), element-wise
DivSqrt(A, s) ==
    [A EXCEPT !.a = [i \in 1..A.shape[1] |-> [j \in 1..A.shape[2] |-> Scaled(A.a[i][j], s)]]]

\* A.T
Transpose(A) ==
    Array2(A.shape[2], A.shape[1],
           [j \in 1..A.shape[2] |-> [i \in 1..A.shape[1] |-> A.a[i][j]]])

RECURSIVE DotSum(_, _, _, _, _)
DotSum(A, B, i, j, k) ==
    IF k = 0 THEN Scaled(0, 1)
    ELSE AddScaled(DotSum(A, B, i, j, k - 1),
                   Scaled(A.a[i][k] * B.a[k][j].num, B.a[k][j].sigma2))

DotShapesOk(A, B) == A.shape[2] = B.shape[1]

\* A.dot(B) for an integer A (n x d) and a scaled B (d x m)
Dot(A, B) ==
    Array2(A.shape[1], B.shape[2],
           [i \in 1..A.shape[1] |-> [j \in 1..B.shape[2] |-> DotSum(A, B, i, j, A.shape[2])]])

\* np.cos(P), np.sin(P), element-wise
Trig(fn, P) ==
    [P EXCEPT !.a = [i \in 1..P.shape[1] |-> [j \in 1..P.shape[2] |->
                        [fn |-> fn, num |-> P.a[i][j].num, sigma2 |-> P.a[i][j].sigma2]]]]

\* np.hstack((A, B)) of two arrays with the same number of rows
Hstack(A, B) ==
    Array2(A.shape[1], A.shape[2] + B.shape[2], [i \in 1..A.shape[1] |-> A.a[i] \o B.a[i]])

\* A * np.sqrt(2.0 / nf), element-wise
TimesSqrt2Over(A, nf) ==
    [A EXCEPT !.a = [i \in 1..A.shape[1] |-> [j \in 1..A.shape[2] |->
                        [fn |-> A.a[i][j].fn, num |-> A.a[i][j].num,
                         sigma2 |-> A.a[i][j].sigma2, nf |-> nf]]]]

---------------------------------------------------------------------------
(* util.NumpySeedContext(seed): on entry it keeps np.random.get_state()    *)
(* and calls np.random.seed(seed); on exit, normal or by an exception, it  *)
(* calls np.random.set_state on what it kept.                              *)

NumpySeedContext_enter(seed, g) == [cur_state |-> g, rng |-> SeedState(seed)]

NumpySeedContext_exit(c) == c.cur_state

---------------------------------------------------------------------------
(* RFFKGauss *)

NoMap == [kind |-> "none"]

CDFMap == [kind |-> "MarginalCDFMap"]

RFFMap(sigma2, n_features, seed) ==
    [kind |-> "RFFKGauss", sigma2 |-> sigma2, n_features |-> n_features, seed |-> seed]

\* a seed argument left out takes the default
SeedOf(seedArg) == IF seedArg.given THEN seedArg.v ELSE DefaultSeed

\* the check of sigma2 with < for <=
RFFKGauss_init_lax(sigma2, n_features, seedArg) ==
    IF sigma2 < 0 THEN Raise("ValueError")
    ELSE IF ~(n_features > 0 /\ n_features % 2 = 0) THEN Raise("ValueError")
    ELSE Return(RFFMap(sigma2, n_features, SeedOf(seedArg)))

RFFKGauss_init(sigma2, n_features, seedArg) ==
    IF sigma2 <= 0 THEN Raise("ValueError")
    ELSE IF ~(n_features > 0 /\ n_features % 2 = 0) THEN Raise("ValueError")
    ELSE Return(RFFMap(sigma2, n_features, SeedOf(seedArg)))

\* draws = self.n_features//2
Draws(self) == self.n_features \div 2

\* W = np.random.randn(draws, d)/np.sqrt(self.sigma2), with the generator it leaves
SampleW(self, d, g) ==
    LET R == Randn(g, Draws(self), d)
    IN  [W |-> DivSqrt(R.val, self.sigma2), rng |-> R.rng]

\* Z = np.hstack((Z1, Z2)) without the sine half
FeaturesCosOnly(XWT, nf) == TimesSqrt2Over(Trig("cos", XWT), nf)

\* Z1 = np.cos(XWT); Z2 = np.sin(XWT); Z = np.hstack((Z1, Z2))*np.sqrt(2.0/self.n_features)
Features(XWT, nf) == TimesSqrt2Over(Hstack(Trig("cos", XWT), Trig("sin", XWT)), nf)

\* XWT = X.dot(W.T), which raises when the inner dimensions differ, then Z
Project(self, x, S) ==
    IF ~DotShapesOk(x, Transpose(S.W))
    THEN [out |-> Raise("ValueError"), rng |-> S.rng]
    ELSE [out |-> Return(Features(Dot(x, Transpose(S.W)), self.n_features)), rng |-> S.rng]

\* the block under the with statement, run from generator state g
RFFBody(self, x, g) ==
    IF ~Is2D(x) THEN [out |-> Raise("ValueError"), rng |-> g]       \* n, d = X.shape
    ELSE Project(self, x, SampleW(self, x.shape[2], g))

Leak(B, x) == Effect(B.out, x, B.rng)

LeakIfRaised(B, x, c) ==
    Effect(B.out, x, IF B.out.raised THEN B.rng ELSE NumpySeedContext_exit(c))

LeakOnError(c, self, x) == LeakIfRaised(RFFBody(self, x, c.rng), x, c)

\* the with statement: the block runs in the entered context c, and leaving
\* the block, by its end or by an exception, runs the context's exit
With(c, self, x) == Effect(RFFBody(self, x, c.rng).out, x, NumpySeedContext_exit(c))

\* np.random.seed(self.seed) in place of the with statement
RFFKGauss_gen_features_seedonly(self, x, g) ==
    Leak(RFFBody(self, x, SeedState(self.seed)), x)

\* the state put back by hand after the block, so not when the block raises
RFFKGauss_gen_features_norestore(self, x, g) ==
    LeakOnError(NumpySeedContext_enter(self.seed, g), self, x)

\* the block run on the ambient generator, never seeded
RFFKGauss_gen_features_unseeded(self, x, g) ==
    Effect(RFFBody(self, x, g).out, x, g)

\* with util.NumpySeedContext(seed=self.seed): <block>; return Z
RFFKGauss_gen_features(self, x, g) ==
    With(NumpySeedContext_enter(self.seed, g), self, x)

\* def num_features(self, X=None): return self.n_features
RFFKGauss_num_features(self, x, given, g) == Effect(Return(self.n_features), x, g)

---------------------------------------------------------------------------
(* Dispatch on the class of the object *)

gen_features(self, x, g) ==
    IF self.kind = "RFFKGauss" THEN RFFKGauss_gen_features(self, x, g)
    ELSE MarginalCDFMap_gen_features(x, g)

num_features(self, x, given, g) ==
    IF self.kind = "RFFKGauss" THEN RFFKGauss_num_features(self, x, given, g)
    ELSE MarginalCDFMap_num_features(x, given, g)

\* def __call__(self, X): return self.gen_features(X)
FeatureMap_call(self, x, g) == gen_features(self, x, g)

---------------------------------------------------------------------------
(* The caller, single-threaded: it constructs a map, loads data, draws     *)
(* from the ambient stream, and calls the map's methods.                   *)

NoMemo == [set |-> FALSE]

\* constructor arguments tried: valid ones and each way of being invalid
Sigma2Args == {-1, 0, 1, 4}

NFeaturesArgs == {-2, 0, 1, 2, 3, 4}

SeedArgs == {[given |-> FALSE]} \cup {[given |-> TRUE, v |-> s] : s \in Seeds}

\* the configurations the caller of Spec builds its maps with
UsedSigma2 == {4}

UsedNFeatures == {2, 4}

UsedSeedArgs == {[given |-> FALSE], [given |-> TRUE, v |-> 2]}

IdleThreads ==
    /\ locked = FALSE
    /\ lock = "free"
    /\ pc = << >>
    /\ tmap = << >>
    /\ ctx = << >>
    /\ tW = << >>
    /\ tZ = << >>
    /\ rng0 = 0

\* the caller holds one data array; the generator is in any state
Init ==
    /\ X \in Arrays
    /\ rng \in 0..(Period - 1)
    /\ map = NoMap
    /\ ret = [op |-> "none"]
    /\ memo = NoMemo
    /\ IdleThreads

\* m = MarginalCDFMap()
NewMarginalCDFMap ==
    /\ map' = CDFMap
    /\ ret' = [op |-> "MarginalCDFMap", out |-> Return(CDFMap)]
    /\ UNCHANGED <<X, rng, memo>>
    /\ UNCHANGED thrVars

\* m = RFFKGauss(sigma2, n_features[, seed]): m is bound only if __init__ returns
NewRFFKGauss(sigma2, n_features, seedArg) ==
    LET r == RFFKGauss_init(sigma2, n_features, seedArg)
    IN  /\ map' = IF r.raised THEN map ELSE r.val
        /\ ret' = [op |-> "RFFKGauss", out |-> r,
                   args |-> [sigma2 |-> sigma2, n_features |-> n_features, seedArg |-> seedArg]]
        /\ UNCHANGED <<X, rng, memo>>
        /\ UNCHANGED thrVars

\* unrelated code draws one value from the ambient stream
AmbientDraw ==
    /\ rng' = NextState(rng)
    /\ ret' = [op |-> "randn", out |-> Return(Normal(rng))]
    /\ memo' = IF memo.set THEN [memo EXCEPT !.drawn = TRUE] ELSE memo
    /\ UNCHANGED <<X, map>>
    /\ UNCHANGED thrVars

\* a method call ends: its effects on the array and the generator, its outcome
Ends(op, e) ==
    /\ X' = e.X
    /\ rng' = e.rng
    /\ ret' = [op |-> op, out |-> e.out]

\* the caller may keep what an RFFKGauss call returned, with its arguments
Keep(out) ==
    IF map.kind = "RFFKGauss" /\ ~out.raised
    THEN \E keep \in BOOLEAN :
            memo' = IF keep THEN [set |-> TRUE, cfg |-> map, X |-> X, Z |-> out.val,
                                  drawn |-> FALSE]
                    ELSE memo
    ELSE memo' = memo

\* Z = m.gen_features(X)
GenFeatures ==
    /\ map.kind # "none"
    /\ Ends("gen_features", gen_features(map, X, rng))
    /\ Keep(ret'.out)
    /\ UNCHANGED map
    /\ UNCHANGED thrVars

\* Z = m(X)
Call ==
    /\ map.kind # "none"
    /\ Ends("__call__", FeatureMap_call(map, X, rng))
    /\ Keep(ret'.out)
    /\ UNCHANGED map
    /\ UNCHANGED thrVars

\* D = m.num_features(X), or m.num_features() when given is FALSE
NumFeatures(given) ==
    /\ map.kind # "none"
    /\ Ends(IF given THEN "num_features(X)" ELSE "num_features()",
            num_features(map, X, given, rng))
    /\ UNCHANGED <<map, memo>>
    /\ UNCHANGED thrVars

Next ==
    \/ NewMarginalCDFMap
    \/ \E s \in UsedSigma2, nf \in UsedNFeatures, sa \in UsedSeedArgs : NewRFFKGauss(s, nf, sa)
    \/ AmbientDraw
    \/ GenFeatures
    \/ Call
    \/ \E given \in BOOLEAN : NumFeatures(given)

Spec == Init /\ [][Next]_vars

---------------------------------------------------------------------------
(* Construction alone, over every combination of constructor arguments.    *)

NextInit ==
    \/ NewMarginalCDFMap
    \/ \E s \in Sigma2Args, nf \in NFeaturesArgs, sa \in SeedArgs : NewRFFKGauss(s, nf, sa)

\* one data array is enough here: construction never looks at it
InitOne == Init /\ X = Array2(1, 1, <<(<<1>>)>>)

SpecInit == InitOne /\ [][NextInit]_vars

---------------------------------------------------------------------------
(* Two threads, each making one gen_features call on the shared array X.   *)
(* A thread switch can fall between any two of: keeping the generator's    *)
(* state, seeding it, drawing W (one call into numpy), and putting the     *)
(* kept state back.  With locked, every caller wraps its RFFKGauss call in *)
(* the same mutex.                                                         *)

Threads == {"t1", "t2"}

ThreadMaps == {CDFMap} \cup {RFFMap(s, nf, seed) : s \in UsedSigma2, nf \in UsedNFeatures, seed \in Seeds}

ThreadArrays == { x \in Matrices(Vals) : x.shape = <<1, 1>> }

Unset == [set |-> FALSE]

InitThreads ==
    /\ X \in ThreadArrays
    /\ rng \in 0..(Period - 1)
    /\ rng0 = rng
    /\ map = NoMap
    /\ ret = [op |-> "none"]
    /\ memo = NoMemo
    /\ locked \in BOOLEAN
    /\ lock = "free"
    /\ tmap \in [Threads -> ThreadMaps]
    /\ pc = [t \in Threads |-> "start"]
    /\ ctx = [t \in Threads |-> Unset]
    /\ tW = [t \in Threads |-> Unset]
    /\ tZ = [t \in Threads |-> Unset]

IsRFF(t) == tmap[t].kind = "RFFKGauss"

\* the caller's "with mutex:" around the call, when callers serialize
TAcquire(t) ==
    /\ IsRFF(t) /\ pc[t] = "start"
    /\ locked => lock = "free"
    /\ lock' = IF locked THEN t ELSE lock
    /\ pc' = [pc EXCEPT ![t] = "get_state"]
    /\ UNCHANGED <<seqVars, locked, tmap, ctx, tW, tZ, rng0>>

\* entering the context, first half: it keeps np.random.get_state()
TGetState(t) ==
    /\ IsRFF(t) /\ pc[t] = "get_state"
    /\ ctx' = [ctx EXCEPT ![t] = [set |-> TRUE,
                                  cur_state |-> NumpySeedContext_enter(tmap[t].seed, rng).cur_state]]
    /\ pc' = [pc EXCEPT ![t] = "seed"]
    /\ UNCHANGED <<seqVars, locked, lock, tmap, tW, tZ, rng0>>

\* entering the context, second half: np.random.seed(seed)
TSeed(t) ==
    /\ IsRFF(t) /\ pc[t] = "seed"
    /\ rng' = NumpySeedContext_enter(tmap[t].seed, rng).rng
    /\ pc' = [pc EXCEPT ![t] = "body"]
    /\ UNCHANGED <<X, map, ret, memo, locked, lock, tmap, ctx, tW, tZ, rng0>>

\* what the block leaves: the W drawn from the generator as it is now, the outcome
Drawn(t, S) ==
    /\ tW' = [tW EXCEPT ![t] = [set |-> TRUE, W |-> S.W]]
    /\ tZ' = [tZ EXCEPT ![t] = [set |-> TRUE, out |-> Project(tmap[t], X, S).out]]
    /\ rng' = S.rng

\* the block under the with statement
TBody(t) ==
    /\ IsRFF(t) /\ pc[t] = "body"
    /\ Drawn(t, SampleW(tmap[t], X.shape[2], rng))
    /\ pc' = [pc EXCEPT ![t] = "exit"]
    /\ UNCHANGED <<X, map, ret, memo, locked, lock, tmap, ctx, rng0>>

\* the block left with nothing put back
TExitNoRestore(t) ==
    /\ IsRFF(t) /\ pc[t] = "exit"
    /\ pc' = [pc EXCEPT ![t] = "return"]
    /\ UNCHANGED <<seqVars, locked, lock, tmap, ctx, tW, tZ, rng0>>

\* leaving the with block: the context puts back the state it kept
TExit(t) ==
    /\ IsRFF(t) /\ pc[t] = "exit"
    /\ rng' = NumpySeedContext_exit(ctx[t])
    /\ pc' = [pc EXCEPT ![t] = "return"]
    /\ UNCHANGED <<X, map, ret, memo, locked, lock, tmap, ctx, tW, tZ, rng0>>

\* return Z, and the caller's mutex is released
TRelease(t) ==
    /\ IsRFF(t) /\ pc[t] = "return"
    /\ lock' = IF locked THEN "free" ELSE lock
    /\ pc' = [pc EXCEPT ![t] = "done"]
    /\ UNCHANGED <<seqVars, locked, tmap, ctx, tW, tZ, rng0>>

\* what a MarginalCDFMap call leaves
CDFEnds(t, e) ==
    /\ X' = e.X
    /\ rng' = e.rng
    /\ tZ' = [tZ EXCEPT ![t] = [set |-> TRUE, out |-> e.out]]

\* MarginalCDFMap.gen_features(X) in thread t
TCDF(t) ==
    /\ ~IsRFF(t) /\ pc[t] = "start"
    /\ CDFEnds(t, MarginalCDFMap_gen_features(X, rng))
    /\ pc' = [pc EXCEPT ![t] = "done"]
    /\ UNCHANGED <<map, ret, memo, locked, lock, tmap, ctx, tW, rng0>>

NextThreads ==
    \E t \in Threads :
        \/ TAcquire(t)
        \/ TGetState(t)
        \/ TSeed(t)
        \/ TBody(t)
        \/ TExit(t)
        \/ TRelease(t)
        \/ TCDF(t)

SpecThreads == InitThreads /\ [][NextThreads]_vars

---------------------------------------------------------------------------
(* Properties *)

IsGen(r) == r.op \in {"gen_features", "__call__"}

IsMethod(r) == r.op \in {"gen_features", "__call__", "num_features(X)", "num_features()"}

Returned(r) == IsGen(r) /\ ~r.out.raised

\* the next k values of the ambient stream from state g
RECURSIVE DrawSeq(_, _)
DrawSeq(g, k) == IF k = 0 THEN << >> ELSE <<Normal(g)>> \o DrawSeq(NextState(g), k - 1)

\* C1: every RFFKGauss.gen_features call that returns leaves the process-wide
\* generator in the state it found it in, so the values drawn from the ambient
\* stream afterwards are those that would have been drawn without the call.
C1_GlobalStateIsolation ==
    [][(Returned(ret') /\ map.kind = "RFFKGauss")
          => (rng' = rng /\ DrawSeq(rng', Period) = DrawSeq(rng, Period))]_vars

\* a call returned that drew at least one value from the seeded stream, and the
\* generator is in the ambient state, which is not the seeded one
C1_Witness ==
    /\ Returned(ret) /\ map.kind = "RFFKGauss"
    /\ X.shape[2] >= 1
    /\ rng # SeedState(map.seed)
    /\ rng # Advance(SeedState(map.seed), Draws(map) * X.shape[2])

\* C2: when RFFKGauss.gen_features raises inside the seeded region, the generator
\* is back in the state it had before the call, and the call yields no Z.
C2_ExceptionSafeScoping ==
    [][(IsGen(ret') /\ map.kind = "RFFKGauss" /\ ret'.out.raised)
          => (rng' = rng /\ "val" \notin DOMAIN ret'.out)]_vars

\* gen_features raised on a 1-D array after the generator had been seeded with
\* a state other than the ambient one
C2_Witness ==
    /\ IsGen(ret) /\ map.kind = "RFFKGauss" /\ ret.out.raised
    /\ ~Is2D(X)
    /\ rng # SeedState(map.seed)

\* C3: a call with the configuration and the data of a call the caller kept the
\* result of returns that same Z, whatever instance makes it and whatever was
\* drawn or called in between.
C3_SeedDeterminism ==
    (Returned(ret) /\ map.kind = "RFFKGauss" /\ memo.set /\ memo.cfg = map /\ memo.X = X)
        => ret.out.val = memo.Z

\* a second call with a kept call's configuration and data, made after the
\* ambient stream moved on, on data that makes W non-empty
C3_Witness ==
    /\ Returned(ret) /\ map.kind = "RFFKGauss"
    /\ memo.set /\ memo.cfg = map /\ memo.X = X /\ memo.drawn
    /\ X.shape[1] >= 1 /\ X.shape[2] >= 1
    /\ ret.out.val = memo.Z

InvalidArgs(a) == a.sigma2 <= 0 \/ a.n_features <= 0 \/ a.n_features % 2 # 0

\* C4: RFFKGauss(...) raises exactly when sigma2 <= 0 or n_features is not a
\* positive even integer, and then binds no instance; otherwise the instance
\* holds sigma2, n_features and seed as passed, seed being 1 when left out.
C4_EagerValidation ==
    [][(ret'.op = "RFFKGauss") =>
          /\ ret'.out.raised <=> InvalidArgs(ret'.args)
          /\ InvalidArgs(ret'.args) => (map' = map /\ ret'.out = Raise("ValueError"))
          /\ ~InvalidArgs(ret'.args) =>
                /\ map' = [kind |-> "RFFKGauss",
                           sigma2 |-> ret'.args.sigma2,
                           n_features |-> ret'.args.n_features,
                           seed |-> IF ret'.args.seedArg.given THEN ret'.args.seedArg.v ELSE 1]
                /\ ret'.out = Return(map')]_vars

\* RFFKGauss(1, 3) raised, and the caller still holds the instance that
\* RFFKGauss(1, 4) gave it before
C4_Witness ==
    /\ ret.op = "RFFKGauss" /\ ret.out.raised
    /\ ret.args.sigma2 = 1 /\ ret.args.n_features = 3
    /\ map = RFFMap(1, 4, 1)

WellShaped(Z, n, D) ==
    /\ Z.shape = <<n, D>>
    /\ Len(Z.a) = n
    /\ \A i \in 1..n : Len(Z.a[i]) = D

\* C5: gen_features(X) on an n x d array returns n rows of D columns, D being
\* what num_features(X) answers: d for MarginalCDFMap, n_features (twice
\* n_features // 2) for RFFKGauss, also from num_features() without X.
C5_ShapeContract ==
    /\ Returned(ret) =>
          /\ WellShaped(ret.out.val, X.shape[1], num_features(map, X, TRUE, rng).out.val)
          /\ map.kind = "MarginalCDFMap" => ret.out.val.shape[2] = X.shape[2]
          /\ map.kind = "RFFKGauss" =>
                /\ ret.out.val.shape[2] = map.n_features
                /\ map.n_features = 2 * (map.n_features \div 2)
    /\ (ret.op = "num_features(X)" /\ ~ret.out.raised) =>
          ret.out.val = IF map.kind = "RFFKGauss" THEN map.n_features ELSE X.shape[2]
    /\ (ret.op = "num_features()" /\ map.kind = "RFFKGauss") =>
          ret.out = Return(map.n_features)

\* an RFFKGauss with n_features = 4 returned a 2 x 4 matrix for a 2 x 1 array
C5_Witness ==
    /\ Returned(ret) /\ map.kind = "RFFKGauss" /\ map.n_features = 4
    /\ X.shape = <<2, 1>>
    /\ ret.out.val.shape = <<2, 4>>

InUnitInterval(q) == 0 < q.num /\ q.num <= q.den

IsOne(q) == q.num = q.den

CDFReturned == Returned(ret) /\ map.kind = "MarginalCDFMap"

\* C6: for n >= 1 every entry of MarginalCDFMap.gen_features(X) is in (0, 1] and
\* the largest entry of each column is exactly 1.
C6_CdfRangeMaxIsOne ==
    (CDFReturned /\ X.shape[1] >= 1) =>
        \A j \in 1..X.shape[2] :
            /\ \A i \in 1..X.shape[1] : InUnitInterval(ret.out.val.a[i][j])
            /\ \E i \in 1..X.shape[1] : IsOne(ret.out.val.a[i][j])

FracEq(p, q) == p.num * q.den = q.num * p.den

NumLess(col, i) == Cardinality({k \in DOMAIN col : col[k] < col[i]})

NumEqual(col, i) == Cardinality({k \in DOMAIN col : col[k] = col[i]})

Increasing == { f \in [Vals -> 0..(Cardinality(Vals) + 1)] : \A a, b \in Vals : a < b => f[a] < f[b] }

\* x with column j replaced by its image under f
Rescaled(x, j, f) == SetCol(x, j, [i \in 1..x.shape[1] |-> f[x.a[i][j]]])

C9_Frame ==
    [][/\ IsMethod(ret') => (X' = X /\ map' = map)
       /\ ret'.op = "__call__" => Effect(ret'.out, X', rng') = gen_features(map, X, rng)]_vars

\* m(X) returned for a MarginalCDFMap and a column that is not in increasing order
C9_Witness ==
    /\ ret.op = "__call__" /\ ~ret.out.raised /\ map.kind = "MarginalCDFMap"
    /\ X.shape = <<2, 1>> /\ X.a[1][1] > X.a[2][1]

AllDone == \A t \in Threads : pc[t] = "done"

\* the W a call of map m on X draws when nothing else runs
WAlone(m) == DivSqrt(Randn(SeedState(m.seed), m.n_features \div 2, X.shape[2]).val, m.sigma2)

Serialized == locked \/ Cardinality({t \in Threads : IsRFF(t)}) <= 1

\* C10: when the RFFKGauss calls are serialized by one mutex (or only one thread
\* makes one), then after all calls the generator is in the state it had before
\* them and each call drew the W it draws alone; a MarginalCDFMap call returns
\* what it returns for X alone, whatever the other thread does to the generator.
\* Without the mutex the witness below is reached.
C10_SerializedCallsAreIsolated ==
    AllDone =>
        /\ Serialized =>
              /\ rng = rng0
              /\ \A t \in Threads : IsRFF(t) =>
                    /\ tW[t].W = WAlone(tmap[t])
                    /\ tZ[t].out = RFFKGauss_gen_features(tmap[t], X, rng0).out
        /\ \A t \in Threads : ~IsRFF(t) =>
              \A g \in 0..(Period - 1) : tZ[t].out = MarginalCDFMap_gen_features(X, g).out

\* two unserialized RFFKGauss calls have returned, the generator is not in the
\* state it had before them, and one of them drew another W than it draws alone
C10_Witness ==
    /\ AllDone /\ ~locked
    /\ \A t \in Threads : IsRFF(t)
    /\ rng # rng0
    /\ \E t \in Threads : tW[t].W # WAlone(tmap[t])

============================================================================
